---- MODULE Spec2Model ----
(***************************************************************************)
(* openwrt-autoreboot (src/src/main.rs): one run of the program.          *)
(*                                                                         *)
(* main parses the command line and drives async_main on a                 *)
(* single-threaded runtime.  async_main resolves the credentials, logs in, *)
(* fetches the status JSON, evaluates the two thresholds and, when both    *)
(* trigger, fetches the reboot page, scrapes the token and posts it.       *)
(*                                                                         *)
(* Text is modelled as a sequence of one-character strings, so that        *)
(* split_once, parse::<i32> and the token regex are computed as the code   *)
(* computes them.  Every answer of the environment (file system, clock,    *)
(* HTTP server) is a nondeterministic choice at the step that awaits it.   *)
(***************************************************************************)
EXTENDS Integers, Sequences, FiniteSets, TLC

(***************************************************************************)
(* Bounds of the model.                                                    *)
(***************************************************************************)
\* longest command line (number of positional values) that is explored
MaxArgs == 4
\* longest loadavg array that is explored
MaxLoadLen == 3

(***************************************************************************)
(* Program constants.                                                      *)
(***************************************************************************)
\* main.rs:121  if cpu_usage > 20
CpuThreshold == 20
\* main.rs:132  if value > 65000
LoadThreshold == 65000
\* main.rs:102  [\da-f]{32}
TokenLen == 32
\* main.rs:177-179  three positional arguments: host, user, password
NumPositionals == 3
\* main.rs:120  parse::<i32>: i32::MAX
I32Max == 2147483647
\* process exit codes: Ok(()) from main, Err from main, a panic, a clap usage error
ExitOk == 0
ExitErr == 1
ExitPanic == 101
ExitUsage == 2

None == [t |-> "none"]
Some(x) == [t |-> "some", v |-> x]

(***************************************************************************)
(* Characters.                                                             *)
(***************************************************************************)
NL == "\n"
AsciiDigits == {"0", "1", "2", "3", "4", "5", "6", "7", "8", "9"}
\* a decimal digit outside ASCII (ARABIC-INDIC DIGIT THREE), which the
\* regex crate's Unicode-aware \d accepts and parse::<i32> rejects
ArabicThree == "U+0663"
HexLetters == {"a", "b", "c", "d", "e", "f"}

DigitValue(c) ==
    CASE c = "0" -> 0 [] c = "1" -> 1 [] c = "2" -> 2 [] c = "3" -> 3
      [] c = "4" -> 4 [] c = "5" -> 5 [] c = "6" -> 6 [] c = "7" -> 7
      [] c = "8" -> 8 [] c = "9" -> 9

(***************************************************************************)
(* str::split_once("\n") (main.rs:119): the text before and after the      *)
(* first newline, or None when there is none.                              *)
(***************************************************************************)
RECURSIVE FindNewline(_, _)
FindNewline(s, i) ==
    IF i > Len(s) THEN 0
    ELSE IF s[i] = NL THEN i
    ELSE FindNewline(s, i + 1)

split_once(s) ==
    LET i == FindNewline(s, 1) IN
    IF i = 0 THEN None
    ELSE Some([before |-> SubSeq(s, 1, i - 1), after |-> SubSeq(s, i + 1, Len(s))])

(***************************************************************************)
(* str::parse::<i32>() (main.rs:120): an optional sign, then one or more   *)
(* ASCII digits, accumulated with checked arithmetic; anything else, or a  *)
(* value outside i32, is an error (None).                                  *)
(***************************************************************************)
\* floor((I32Max + 1 - d) / 10), computed without leaving the i32 range
MinQuot(d) ==
    LET m == I32Max - d IN (m \div 10) + (IF m % 10 = 9 THEN 1 ELSE 0)

RECURSIVE ParseDigits(_, _, _, _)
ParseDigits(s, i, acc, positive) ==
    IF i > Len(s) THEN Some(acc)
    ELSE IF s[i] \notin AsciiDigits THEN None
    ELSE LET d == DigitValue(s[i]) IN
         IF positive
         THEN IF acc > (I32Max - d) \div 10 THEN None
              ELSE ParseDigits(s, i + 1, acc * 10 + d, positive)
         ELSE \* accumulate downwards, towards i32::MIN = -I32Max - 1
              IF -acc > MinQuot(d) THEN None
              ELSE ParseDigits(s, i + 1, acc * 10 - d, positive)

parse_i32(s) ==
    IF Len(s) = 0 THEN None
    ELSE IF s[1] \in {"+", "-"}
         THEN IF Len(s) = 1 THEN None
              ELSE ParseDigits(s, 2, 0, s[1] = "+")
    ELSE ParseDigits(s, 1, 0, TRUE)

(***************************************************************************)
(* Regex `token: '(?P<token>[\da-f]{32})'` (main.rs:102) and               *)
(* Regex::captures (main.rs:151): the leftmost match in the text.  \d is   *)
(* Unicode-aware; the letters are lower case only.                         *)
(***************************************************************************)
TokenPrefix == <<"t", "o", "k", "e", "n", ":", " ", "'">>
Quote == "'"

IsTokenChar(c) == c \in AsciiDigits \cup {ArabicThree} \cup HexLetters

\* the pattern matches the text starting at position i
MatchesAt(text, i) ==
    /\ i >= 1
    /\ i + Len(TokenPrefix) + TokenLen <= Len(text)
    /\ SubSeq(text, i, i + Len(TokenPrefix) - 1) = TokenPrefix
    /\ \A k \in 1..TokenLen : IsTokenChar(text[i + Len(TokenPrefix) + k - 1])
    /\ text[i + Len(TokenPrefix) + TokenLen] = Quote

\* the named group of a match at position i
TokenAt(text, i) ==
    SubSeq(text, i + Len(TokenPrefix), i + Len(TokenPrefix) + TokenLen - 1)

RECURSIVE ScanFrom(_, _)
ScanFrom(text, i) ==
    IF i > Len(text) THEN None
    ELSE IF MatchesAt(text, i) THEN Some(TokenAt(text, i))
    ELSE ScanFrom(text, i + 1)

captures(text) == ScanFrom(text, 1)

(***************************************************************************)
(* serde_json::Value, as far as the program distinguishes values.  A       *)
(* Number is stored as i64 (an integer from i64::MIN to i64::MAX, -0       *)
(* excepted), as u64 (an integer above i64::MAX) or as f64 (anything       *)
(* written with a fraction or an exponent, -0, and integers outside both   *)
(* ranges); v is the integer part (0 stands for the u64 magnitude, which   *)
(* is never read).                                                         *)
(***************************************************************************)
Absent == [t |-> "absent"]
JNull == [t |-> "null"]
JString(s) == [t |-> "string", s |-> s]
JInt(n) == [t |-> "number", repr |-> "i64", v |-> n]
JBigU == [t |-> "number", repr |-> "u64", v |-> 0]
JFloat(n) == [t |-> "number", repr |-> "f64", v |-> n]
JArray(a) == [t |-> "array", a |-> a]

\* serde_json::Number::as_i64 (main.rs:131)
as_i64(n) == IF n.repr = "i64" THEN Some(n.v) ELSE None

(***************************************************************************)
(* The threshold evaluator (main.rs:121-141).                              *)
(***************************************************************************)
CpuHigh_ge(cpu) == cpu >= CpuThreshold

\* main.rs:121
CpuHigh(cpu) == cpu > CpuThreshold

SampleHigh_ge(value) == value >= LoadThreshold

\* main.rs:132, 135
SampleHigh(value) == value > LoadThreshold

LoadLog(value) == [level |-> "info", msg |-> "load_average", v |-> value]

\* the closure of main.rs:129-139 applied to one element: its boolean, the
\* line it logs, or the panic of as_i64().unwrap()
Sample(x) ==
    IF x.t = "number"
    THEN LET value == as_i64(x) IN
         IF value = None THEN [r |-> "panic", logs |-> <<>>]
         ELSE IF SampleHigh(value.v)
              THEN [r |-> "true", logs |-> <<LoadLog(value.v)>>]
              ELSE [r |-> "false", logs |-> <<>>]
    ELSE [r |-> "false", logs |-> <<>>]

\* iter().map(closure).all(|x| x) (main.rs:127-140): the closure runs on one
\* element at a time and the scan stops at the first false
RECURSIVE ScanAll(_, _, _)
ScanAll(a, i, logs) ==
    IF i > Len(a) THEN [r |-> "true", logs |-> logs]
    ELSE LET one == Sample(a[i]) IN
         IF one.r = "true" THEN ScanAll(a, i + 1, logs \o one.logs)
         ELSE [r |-> one.r, logs |-> logs \o one.logs]

\* a scan that maps every element before it folds (no short circuit)
RECURSIVE ScanEager(_, _, _, _)
ScanEager(a, i, logs, r) ==
    IF i > Len(a) THEN [r |-> r, logs |-> logs]
    ELSE LET one == Sample(a[i]) IN
         IF one.r = "panic" THEN [r |-> "panic", logs |-> logs]
         ELSE ScanEager(a, i + 1, logs \o one.logs,
                        IF one.r = "false" THEN "false" ELSE r)

all_high_eager(a) == ScanEager(a, 1, <<>>, "true")

all_high(a) == ScanAll(a, 1, <<>>)

load_avg_or_empty(response) ==
    IF response.loadavg.t = "array" THEN Some(response.loadavg.a) ELSE Some(<<>>)

\* if let Some(Value::Array(load_avg)) = response.get("loadavg") (main.rs:126)
load_avg_array(response) ==
    IF response.loadavg.t = "array" THEN Some(response.loadavg.a) ELSE None

\* if let Some(Value::String(cpu)) = response.get("cpuusage") (main.rs:118)
cpu_string(response) ==
    IF response.cpuusage.t = "string" THEN Some(response.cpuusage.s) ELSE None

Panicked(cpu, logs) == [next |-> "panic", cpu |-> cpu, logs |-> logs]
Returned(cpu, logs) == [next |-> "return", cpu |-> cpu, logs |-> logs]

\* main.rs:118-142 and 163-170, from the parsed status object up to the first
\* await of the reboot handshake: what happens next, the parsed cpu usage
\* and the lines logged
Evaluate(response) ==
    LET cpu == cpu_string(response) IN
    IF cpu = None THEN Returned(None, <<>>)
    ELSE LET parts == split_once(cpu.v) IN
    IF parts = None THEN Panicked(None, <<>>)
    ELSE LET cpu_usage == parse_i32(parts.v.before) IN
    IF cpu_usage = None THEN Panicked(None, <<>>)
    ELSE IF ~CpuHigh(cpu_usage.v)
    THEN Returned(cpu_usage,
                  <<[level |-> "info", msg |-> "nothing_to_do", v |-> cpu_usage.v]>>)
    ELSE LET first == <<[level |-> "info", msg |-> "cpu_high", v |-> cpu_usage.v]>>
             load_avg == load_avg_array(response) IN
         IF load_avg = None THEN Returned(cpu_usage, first)
         ELSE LET scan == all_high(load_avg.v) IN
              CASE scan.r = "panic" -> Panicked(cpu_usage, first \o scan.logs)
                [] scan.r = "false" -> Returned(cpu_usage, first \o scan.logs)
                [] scan.r = "true" ->
                     [next |-> "reboot", cpu |-> cpu_usage,
                      logs |-> first \o scan.logs
                               \o <<[level |-> "warn", msg |-> "reboot", v |-> 0]>>]

(***************************************************************************)
(* Command line and credentials (main.rs:62-93, 175-180).                  *)
(***************************************************************************)
Arg(argv, i) == IF i <= Len(argv) THEN Some(argv[i]) ELSE None

\* App::get_matches with the positionals host, user, password: values are
\* assigned in order; more values than positionals is a usage error
get_matches(argv) ==
    IF Len(argv) > NumPositionals THEN None
    ELSE Some([host |-> Arg(argv, 1), user |-> Arg(argv, 2), password |-> Arg(argv, 3)])

try_from_matches_host(matches) ==
    IF matches.host = None THEN [t |-> "none"]
    ELSE IF matches.user = None \/ matches.password = None THEN [t |-> "panic"]
    ELSE Some([host |-> matches.host.v, user |-> matches.user.v,
               password |-> matches.password.v])

\* Server::try_from_matches (main.rs:69-76): decided by the password alone;
\* the two other values are unwrapped
try_from_matches(matches) ==
    IF matches.password = None THEN [t |-> "none"]
    ELSE IF matches.host = None \/ matches.user = None THEN [t |-> "panic"]
    ELSE Some([host |-> matches.host.v, user |-> matches.user.v,
               password |-> matches.password.v])

\* LuciLoginField::from(&Server) (main.rs:52-59)
LuciLoginField(server) ==
    [luci_username |-> server.user, luci_password |-> server.password]

\* TokenField::new (main.rs:40-44)
TokenField(token) == [token |-> token]

(***************************************************************************)
(* Inputs: what the command line, the file system, the clock and the       *)
(* router can hand to the program.                                         *)
(***************************************************************************)
\* the value written at each position of the command line; the program only
\* copies these strings, so one value per position, all different from each
\* other and from the file's, tells every mix-up apart
CliValue(i) ==
    CASE i = 1 -> "cli-host" [] i = 2 -> "cli-user" [] i = 3 -> "cli-pass"
      [] OTHER -> "cli-extra"
\* command lines with 0, 1, ... MaxArgs positional values
ArgVectors == {[i \in 1..n |-> CliValue(i)] : n \in 0..MaxArgs}

FileServer == [host |-> "file-host", user |-> "file-user", password |-> "file-pass"]
\* Config::load (main.rs:89-92): read_to_string fails, toml::from_str fails,
\* or a Config with its server section
ConfigResults == {[t |-> "io_error"], [t |-> "parse_error"], Some([server |-> FileServer])}

\* SystemTime::now() relative to the epoch (main.rs:28-32)
Clocks == {[t |-> "before_epoch"], Some("1635724800")}

SendResults == {"ok", "error"}

CpuStrings ==
    { <<"1", "5", NL, "0">>,                     \* 15
      <<"2", "0", NL>>,                          \* 20
      <<"2", "1", NL, "x">>,                     \* 21
      <<"4", "5", NL, "1", NL, "2">>,            \* 45, split at the first newline
      <<"-", "5", NL>>,                          \* -5
      <<"+", "3", "0", NL>>,                     \* +30
      <<"4", "5">>,                              \* no newline
      <<>>,                                      \* empty
      <<NL, "4", "5">>,                          \* empty leading segment
      <<" ", "4", "5", NL>>,                     \* leading blank
      <<"4", "5", ".", "5", NL>>,                \* not an integer
      <<"-", NL>>,                               \* sign alone
      <<ArabicThree, NL>>,                       \* a non-ASCII digit
      <<"2", "1", "4", "7", "4", "8", "3", "6", "4", "7", NL>>,        \* i32::MAX
      <<"2", "1", "4", "7", "4", "8", "3", "6", "4", "8", NL>>,        \* i32::MAX + 1
      <<"-", "2", "1", "4", "7", "4", "8", "3", "6", "4", "8", NL>>,   \* i32::MIN
      <<"-", "2", "1", "4", "7", "4", "8", "3", "6", "4", "9", NL>> }  \* i32::MIN - 1

CpuFields == {Absent, JNull, JInt(45)} \cup {JString(c) : c \in CpuStrings}

LoadValues == {JInt(65000), JInt(65001), JFloat(70000), JBigU, JString(<<"9">>)}
LoadArrays == UNION {[1..n -> LoadValues] : n \in 0..MaxLoadLen}
LoadFields == {Absent, JNull, JString(<<"x">>)} \cup {JArray(a) : a \in LoadArrays}

\* the body of the status response: not JSON, JSON that is not an object,
\* or an object with its two fields of interest
StatusBodies ==
    {[t |-> "not_json"], [t |-> "not_object"]}
    \cup {[t |-> "object", cpuusage |-> c, loadavg |-> l] : c \in CpuFields, l \in LoadFields}

Hex16 == <<"0", "1", "2", "3", "4", "5", "6", "7", "8", "9", "a", "b", "c", "d", "e", "f">>
Hex16Rev == <<"f", "e", "d", "c", "b", "a", "9", "8", "7", "6", "5", "4", "3", "2", "1", "0">>
Upper16 == <<"0", "1", "2", "3", "4", "5", "6", "7", "8", "9", "A", "B", "C", "D", "E", "F">>
TokenA == Hex16 \o Hex16
TokenB == Hex16Rev \o Hex16
Field(tok) == TokenPrefix \o tok \o <<Quote>>

RebootPages ==
    { <<"<">> \o Field(TokenA) \o <<">">>,                \* one token
      Field(TokenA) \o <<" ">> \o Field(TokenB),           \* two tokens
      Field(SubSeq(TokenA, 1, 31)) \o Field(TokenB),       \* 31 characters, then a token
      Field(TokenA \o <<"0">>),                            \* 33 characters
      Field(Upper16 \o Upper16),                           \* upper-case letters
      Field(SubSeq(TokenA, 1, 31) \o <<ArabicThree>>),     \* a non-ASCII digit
      TokenPrefix \o TokenA,                               \* no closing quote
      <<"<", "h", "1", ">">>,                              \* no token at all
      <<>> }
\* response.text() (main.rs:150): reading the body fails, or the page
PageResults == {[t |-> "read_error"]} \cup {Some(p) : p \in RebootPages}

(***************************************************************************)
(* State.                                                                  *)
(***************************************************************************)
VARIABLES
    pc,          \* the step the run is at
    argv,        \* the positional values of the command line
    matches,     \* ArgMatches (main.rs:175-180)
    config,      \* the result of Config::load, None while it was not called
    configReads, \* how many times config.toml was read
    server,      \* the Server in use (main.rs:96-101)
    requests,    \* the HTTP requests sent, in order, each with its outcome
    response,    \* the status body received (main.rs:117)
    cpu_usage,   \* main.rs:120
    page,        \* the text of the reboot page (main.rs:150)
    token,       \* main.rs:152
    logs,        \* the info! and warn! calls made, in order
    endedAt,     \* the step at which the run ended
    exitCode     \* the exit status of the process

vars == <<pc, argv, matches, config, configReads, server, requests, response,
          cpu_usage, page, token, logs, endedAt, exitCode>>

Init ==
    /\ pc = "main"
    /\ argv \in ArgVectors
    /\ matches = None
    /\ config = None
    /\ configReads = 0
    /\ server = None
    /\ requests = <<>>
    /\ response = None
    /\ cpu_usage = None
    /\ page = None
    /\ token = None
    /\ logs = <<>>
    /\ endedAt = None
    /\ exitCode = None

\* the run ends at the current step with the given exit status
End(code) ==
    /\ pc' = "done"
    /\ endedAt' = Some(pc)
    /\ exitCode' = Some(code)

Goto(step) ==
    /\ pc' = step
    /\ UNCHANGED <<endedAt, exitCode>>

Request(kind, method, path, query, form, result) ==
    [kind |-> kind, method |-> method, host |-> server.v.host, path |-> path,
     query |-> query, form |-> form, result |-> result]

(***************************************************************************)
(* Steps of the run: main, then async_main from one await to the next.     *)
(***************************************************************************)
\* main (main.rs:173-185): parse the command line, build the runtime
Main ==
    /\ pc = "main"
    /\ LET parsed == get_matches(argv) IN
       IF parsed = None
       THEN /\ matches' = None
            /\ End(ExitUsage)
       ELSE /\ matches' = parsed
            /\ \E built \in BOOLEAN :
                 IF built THEN Goto("resolve") ELSE End(ExitErr)
    /\ UNCHANGED <<argv, config, configReads, server, requests, response,
                   cpu_usage, page, token, logs>>

\* main.rs:96-101: the command line if it is complete, else config.toml
Resolve ==
    /\ pc = "resolve"
    /\ LET given == try_from_matches(matches.v) IN
       CASE given.t = "some" ->
              /\ server' = given
              /\ Goto("client")
              /\ UNCHANGED <<config, configReads>>
         [] given.t = "panic" ->
              /\ End(ExitPanic)
              /\ UNCHANGED <<server, config, configReads>>
         [] given.t = "none" ->
              \E loaded \in ConfigResults :
                 /\ config' = loaded
                 /\ configReads' = configReads + 1
                 /\ IF loaded.t = "some"
                    THEN server' = Some(loaded.v.server) /\ Goto("client")
                    ELSE server' = server /\ End(ExitErr)
    /\ UNCHANGED <<argv, matches, requests, response, cpu_usage, page, token, logs>>

\* main.rs:102-103: the regex compiles; the client builder may fail
BuildClient ==
    /\ pc = "client"
    /\ \E built \in BOOLEAN :
         IF built THEN Goto("login") ELSE End(ExitErr)
    /\ UNCHANGED <<argv, matches, config, configReads, server, requests, response,
                   cpu_usage, page, token, logs>>

Login_no_abort ==
    /\ pc = "login"
    /\ \E result \in SendResults :
         /\ requests' = Append(requests,
                Request("login", "POST", "/cgi-bin/luci", None,
                        Some(LuciLoginField(server.v)), result))
         /\ Goto("status_send")
    /\ UNCHANGED <<argv, matches, config, configReads, server, response,
                   cpu_usage, page, token, logs>>

\* main.rs:104-108: the login POST; the response is not inspected
Login ==
    /\ pc = "login"
    /\ \E result \in SendResults :
         /\ requests' = Append(requests,
                Request("login", "POST", "/cgi-bin/luci", None,
                        Some(LuciLoginField(server.v)), result))
         /\ IF result = "ok" THEN Goto("status_send") ELSE End(ExitErr)
    /\ UNCHANGED <<argv, matches, config, configReads, server, response,
                   cpu_usage, page, token, logs>>

\* main.rs:109-116 with get_current_timestamp (main.rs:27-33): the status GET
StatusSend ==
    /\ pc = "status_send"
    /\ \E now \in Clocks :
         IF now.t = "before_epoch"
         THEN /\ End(ExitPanic)
              /\ UNCHANGED requests
         ELSE \E result \in SendResults :
                 /\ requests' = Append(requests,
                        Request("status", "GET", "/cgi-bin/luci/",
                                Some([status |-> "1", stamp |-> now.v]), None, result))
                 /\ IF result = "ok" THEN Goto("status_json") ELSE End(ExitErr)
    /\ UNCHANGED <<argv, matches, config, configReads, server, response,
                   cpu_usage, page, token, logs>>

\* main.rs:117-142 and 163-170: read the body as a JSON object, then the
\* threshold evaluation up to the end of the run or to the reboot handshake
StatusJson ==
    /\ pc = "status_json"
    /\ \E body \in StatusBodies :
         /\ response' = body
         /\ IF body.t # "object"
            THEN /\ End(ExitErr)
                 /\ UNCHANGED <<cpu_usage, logs>>
            ELSE LET e == Evaluate(body) IN
                 /\ cpu_usage' = e.cpu
                 /\ logs' = logs \o e.logs
                 /\ CASE e.next = "panic" -> End(ExitPanic)
                      [] e.next = "return" -> End(ExitOk)
                      [] e.next = "reboot" -> Goto("reboot_send")
    /\ UNCHANGED <<argv, matches, config, configReads, server, requests, page, token>>

\* main.rs:143-149: the reboot-page GET
RebootSend ==
    /\ pc = "reboot_send"
    /\ \E result \in SendResults :
         /\ requests' = Append(requests,
                Request("reboot_page", "GET", "/cgi-bin/luci/admin/system/reboot",
                        None, None, result))
         /\ IF result = "ok" THEN Goto("reboot_text") ELSE End(ExitErr)
    /\ UNCHANGED <<argv, matches, config, configReads, server, response,
                   cpu_usage, page, token, logs>>

RebootText_default ==
    /\ pc = "reboot_text"
    /\ \E body \in PageResults :
         IF body.t = "read_error"
         THEN /\ End(ExitErr)
              /\ UNCHANGED <<page, token>>
         ELSE /\ page' = body
              /\ LET found == captures(body.v) IN
                 token' = IF found = None THEN Some(<<>>) ELSE found
              /\ Goto("reboot_call")
    /\ UNCHANGED <<argv, matches, config, configReads, server, requests, response,
                   cpu_usage, logs>>

\* main.rs:150-152: read the page and take the token of the first match
RebootText ==
    /\ pc = "reboot_text"
    /\ \E body \in PageResults :
         IF body.t = "read_error"
         THEN /\ End(ExitErr)
              /\ UNCHANGED <<page, token>>
         ELSE /\ page' = body
              /\ LET found == captures(body.v) IN
                 IF found = None
                 THEN /\ End(ExitPanic)
                      /\ UNCHANGED token
                 ELSE /\ token' = found
                      /\ Goto("reboot_call")
    /\ UNCHANGED <<argv, matches, config, configReads, server, requests, response,
                   cpu_usage, logs>>

RebootCall_retry ==
    /\ pc = "reboot_call"
    /\ \E result \in SendResults :
         /\ requests' = Append(requests,
                Request("reboot_call", "POST", "/cgi-bin/luci/admin/system/reboot/call",
                        None, Some(TokenField(token.v)), result))
         /\ IF result = "ok" THEN End(ExitOk)
            ELSE IF Len(requests) < 5 THEN Goto("reboot_call") ELSE End(ExitErr)
    /\ UNCHANGED <<argv, matches, config, configReads, server, response,
                   cpu_usage, page, token, logs>>

\* main.rs:153-160 and 170: the confirmation POST, then Ok(())
RebootCall ==
    /\ pc = "reboot_call"
    /\ \E result \in SendResults :
         /\ requests' = Append(requests,
                Request("reboot_call", "POST", "/cgi-bin/luci/admin/system/reboot/call",
                        None, Some(TokenField(token.v)), result))
         /\ IF result = "ok" THEN End(ExitOk) ELSE End(ExitErr)
    /\ UNCHANGED <<argv, matches, config, configReads, server, response,
                   cpu_usage, page, token, logs>>

Next ==
    \/ Main
    \/ Resolve
    \/ BuildClient
    \/ Login
    \/ StatusSend
    \/ StatusJson
    \/ RebootSend
    \/ RebootText
    \/ RebootCall

Spec == Init /\ [][Next]_vars

\* the runtime drives the single task whenever it can take a step, and every
\* awaited operation returns
FairSpec == Spec /\ WF_vars(Next)

(***************************************************************************)
(* Vocabulary of the properties.                                           *)
(***************************************************************************)
Sent(kind) == \E i \in 1..Len(requests) : requests[i].kind = kind
Count(kind) == Cardinality({i \in 1..Len(requests) : requests[i].kind = kind})
LastKind == IF requests = <<>> THEN "none" ELSE requests[Len(requests)].kind
Order == <<"login", "status", "reboot_page", "reboot_call">>
Parsed == cpu_usage # None
GotObject == response # None /\ response.t = "object"
GotArray == GotObject /\ response.loadavg.t = "array"
NoNewline(s) == \A i \in 1..Len(s) : s[i] # NL
\* a JSON number above 65000, however it is written (the only non-integer
\* numbers of the inputs, 70000.5 and 2^63, are above it)
NumberExceeds(x) == x.t = "number" /\ (x.repr = "u64" \/ x.v > 65000)
\* a JSON integer within i64 above 65000
IntegerExceeds(x) == x.t = "number" /\ x.repr = "i64" /\ x.v > 65000
\* the length of the longest prefix of a whose elements all satisfy IntegerExceeds
LeadingRun(a) ==
    Cardinality({k \in 1..Len(a) : \A i \in 1..k : IntegerExceeds(a[i])})
LoadLines == SelectSeq(logs, LAMBDA l : l.msg = "load_average")
\* a hexadecimal digit as the pattern writes it: 0-9 and lower-case a-f
IsHexChar(c) == c \in AsciiDigits \cup HexLetters
\* token: '<32 hex chars>' occurs in the text at position k
HexMatchesAt(text, k) ==
    /\ k >= 1
    /\ k + 8 + 32 <= Len(text)
    /\ SubSeq(text, k, k + 7) = <<"t", "o", "k", "e", "n", ":", " ", "'">>
    /\ \A c \in 1..32 : IsHexChar(text[k + 7 + c])
    /\ text[k + 8 + 32] = "'"
NoMatch(text) == \A k \in 1..Len(text) : ~MatchesAt(text, k)

(***************************************************************************)
(* C1.  Whenever the parsed CPU usage is at most 20 (negative values       *)
(* included), whatever loadavg holds, neither the reboot-page GET nor the  *)
(* confirmation POST is issued: the status GET is the last request and the *)
(* run has ended with exit status 0.                                       *)
(***************************************************************************)
C1_NoRebootAtOrBelowThreshold ==
    (Parsed /\ cpu_usage.v <= 20) =>
        /\ ~Sent("reboot_page")
        /\ ~Sent("reboot_call")
        /\ LastKind = "status"
        /\ pc = "done"
        /\ exitCode = Some(ExitOk)

\* a negative reading over a loadavg whose samples are all above 65000
C1_Witness ==
    /\ pc = "done"
    /\ Parsed /\ cpu_usage.v < 0
    /\ GotArray
    /\ Len(response.loadavg.a) >= 2
    /\ \A i \in 1..Len(response.loadavg.a) : IntegerExceeds(response.loadavg.a[i])
    /\ exitCode = Some(ExitOk)

(***************************************************************************)
(* C2 as stated.  When the run has ended with a parsed CPU usage above 20  *)
(* and an array loadavg, the reboot-page GET was issued if and only if     *)
(* every element of the array is a number above 65000.                     *)
(***************************************************************************)
C2_RebootIffAllExceed ==
    (pc = "done" /\ Parsed /\ cpu_usage.v > 20 /\ GotArray) =>
        (Sent("reboot_page") <=>
            \A i \in 1..Len(response.loadavg.a) : NumberExceeds(response.loadavg.a[i]))

(***************************************************************************)
(* C2 amended.  When the run has ended with a parsed CPU usage above 20    *)
(* and an array loadavg, the reboot-page GET was issued if and only if     *)
(* every element is an integer (within i64) above 65000, the empty array   *)
(* included.  Otherwise no reboot request was issued and the run ended at  *)
(* the evaluation: with a panic when the first element that is not such an *)
(* integer is a number that is no i64 (a fraction, or above i64::MAX),     *)
(* with exit status 0 when it is an integer <= 65000 or not a number.      *)
(***************************************************************************)
C2_RebootIffAllIntegersExceed ==
    (pc = "done" /\ Parsed /\ cpu_usage.v > 20 /\ GotArray) =>
        LET a == response.loadavg.a
            k == LeadingRun(a) + 1
        IN  IF k > Len(a)
            THEN Sent("reboot_page")
            ELSE /\ ~Sent("reboot_page")
                 /\ ~Sent("reboot_call")
                 /\ LastKind = "status"
                 /\ exitCode = IF a[k].t = "number" /\ a[k].repr # "i64"
                               THEN Some(ExitPanic) ELSE Some(ExitOk)

\* three integer samples above 65000 and the reboot page requested
C2_Witness ==
    /\ Parsed /\ cpu_usage.v > 20
    /\ GotArray
    /\ Len(response.loadavg.a) = 3
    /\ \A i \in 1..3 : IntegerExceeds(response.loadavg.a[i])
    /\ Sent("reboot_page")

(***************************************************************************)
(* C3 as stated.  When the status object has no cpuusage string (absent or *)
(* of another type), or a cpuusage string without a newline, the run does  *)
(* not end with exit status 0.                                             *)
(***************************************************************************)
C3_StatusFailsOnBadCpuField ==
    (pc = "done" /\ GotObject
       /\ (response.cpuusage.t # "string" \/ NoNewline(response.cpuusage.s))) =>
        exitCode # Some(ExitOk)

(***************************************************************************)
(* C4.  Every confirmation POST carries exactly the 32-character           *)
(* hexadecimal token of the first match of token: '<32 hex chars>' in the  *)
(* reboot page fetched in this run; and when the page holds no such match  *)
(* the run has aborted with a non-zero exit and no confirmation POST.      *)
(***************************************************************************)
C4_PostedTokenIsHexFirstMatch ==
    /\ \A i \in 1..Len(requests) :
          requests[i].kind = "reboot_call" =>
            /\ page # None
            /\ \E j \in 1..(i - 1) :
                  requests[j].kind = "reboot_page" /\ requests[j].result = "ok"
            /\ \E k \in 1..Len(page.v) :
                  /\ HexMatchesAt(page.v, k)
                  /\ \A j \in 1..(k - 1) : ~HexMatchesAt(page.v, j)
                  /\ requests[i].form =
                        Some([token |-> SubSeq(page.v, k + 8, k + 8 + 31)])
    /\ (page # None /\ \A k \in 1..Len(page.v) : ~HexMatchesAt(page.v, k)) =>
          /\ ~Sent("reboot_call")
          /\ pc = "done"
          /\ exitCode # Some(ExitOk)

(***************************************************************************)
(* C5.  The requests of a run are a prefix of login POST, status GET,      *)
(* reboot-page GET, confirmation POST: each at most once, each after the   *)
(* previous one completed without error, and the step of the run tells how *)
(* far the chain has got (Idle, Authenticated, MetricsFetched,             *)
(* RebootTokenFetched, RebootConfirmed).                                   *)
(***************************************************************************)
C5_RequestsInFixedOrder ==
    /\ Len(requests) <= 4
    /\ \A i \in 1..Len(requests) : requests[i].kind = Order[i]
    /\ \A i \in 1..(Len(requests) - 1) : requests[i].result = "ok"
    /\ pc \in {"main", "resolve", "client", "login"} => requests = <<>>
    /\ pc = "status_send" => Len(requests) = 1 /\ requests[1].result = "ok"
    /\ pc \in {"status_json", "reboot_send"} =>
          Len(requests) = 2 /\ requests[2].result = "ok"
    /\ pc = "reboot_send" => GotObject /\ Parsed
    /\ pc \in {"reboot_text", "reboot_call"} =>
          Len(requests) = 3 /\ requests[3].result = "ok"
    /\ pc = "reboot_call" => token # None
    /\ Sent("reboot_call") => pc = "done" /\ token # None /\ GotObject

\* the whole chain, confirmed
C5_Witness ==
    /\ pc = "done"
    /\ Len(requests) = 4
    /\ requests[4].kind = "reboot_call" /\ requests[4].result = "ok"
    /\ exitCode = Some(ExitOk)

(***************************************************************************)
(* C6.  Every listed error ends the run at once with a non-zero exit: a    *)
(* failed config load, a transport failure of a request, a status body     *)
(* that is no JSON object, a cpuusage string that has no newline or no     *)
(* integer before it, a reboot page without a token.  The failed request   *)
(* is the last one and no kind of request is issued twice.                 *)
(***************************************************************************)
C6_ErrorsAbortTheRun ==
    /\ (config # None /\ config.t # "some") =>
          /\ pc = "done" /\ exitCode = Some(ExitErr)
          /\ requests = <<>> /\ configReads = 1
    /\ \A i \in 1..Len(requests) :
          requests[i].result = "error" =>
            /\ i = Len(requests)
            /\ pc = "done" /\ exitCode = Some(ExitErr)
    /\ \A kind \in {Order[i] : i \in 1..4} : Count(kind) <= 1
    /\ (response # None /\ response.t # "object") =>
          /\ pc = "done" /\ exitCode = Some(ExitErr)
          /\ LastKind = "status"
    /\ (GotObject /\ response.cpuusage.t = "string"
          /\ (split_once(response.cpuusage.s) = None
               \/ parse_i32(split_once(response.cpuusage.s).v.before) = None)) =>
          /\ pc = "done" /\ exitCode = Some(ExitPanic)
          /\ LastKind = "status"
    /\ (page # None /\ NoMatch(page.v)) =>
          /\ pc = "done" /\ exitCode = Some(ExitPanic)
          /\ LastKind = "reboot_page"

\* a reboot page without a token has aborted the run
C6_Witness ==
    /\ pc = "done"
    /\ page = Some(<<"<", "h", "1", ">">>)
    /\ LastKind = "reboot_page"
    /\ exitCode = Some(ExitPanic)

(***************************************************************************)
(* C7.  Once the credentials are resolved: with host, user and password    *)
(* all on the command line the configuration file was never read and the   *)
(* server is the three command-line values; with any of them missing the   *)
(* file was read once and the server is the file's server section in full. *)
(* Every request goes to that server's host and the login carries its user *)
(* and password.                                                           *)
(***************************************************************************)
C7_AllCliOrAllFile ==
    (matches # None /\ pc \notin {"main", "resolve"} /\ endedAt # Some("main")) =>
        /\ IF /\ matches.v.host # None
              /\ matches.v.user # None
              /\ matches.v.password # None
           THEN /\ configReads = 0
                /\ config = None
                /\ server = Some([host |-> argv[1], user |-> argv[2],
                                  password |-> argv[3]])
           ELSE /\ configReads = 1
                /\ config # None
                /\ IF config.t = "some"
                   THEN server = Some(config.v.server)
                   ELSE server = None /\ endedAt = Some("resolve")
        /\ \A i \in 1..Len(requests) :
              /\ requests[i].host = server.v.host
              /\ requests[i].kind = "login" =>
                    requests[i].form = Some([luci_username |-> server.v.user,
                                             luci_password |-> server.v.password])

\* host and user given, password missing: the login went out with the file's values
C7_Witness ==
    /\ Len(argv) = 2
    /\ server = Some(FileServer)
    /\ Sent("login")
    /\ requests[1].host = "file-host"

(***************************************************************************)
(* C8 as stated.  With a parsed CPU usage above 20 and an array loadavg,   *)
(* the number of load-average info lines equals the number of elements of  *)
(* the array that are above 65000.                                         *)
(***************************************************************************)
C8_LineForEveryHighSample ==
    (pc = "done" /\ Parsed /\ cpu_usage.v > 20 /\ GotArray) =>
        Len(LoadLines) =
            Cardinality({i \in 1..Len(response.loadavg.a) :
                            NumberExceeds(response.loadavg.a[i])})

(***************************************************************************)
(* C8 amended.  With a parsed CPU usage above 20 and an array loadavg, the *)
(* load-average info lines are those of the leading run of integer samples *)
(* above 65000, in order: the scan stops at the first element that is not  *)
(* one, and no element after it is logged.                                 *)
(***************************************************************************)
C8_LineForLeadingHighSamples ==
    (Parsed /\ cpu_usage.v > 20 /\ GotArray) =>
        LET a == response.loadavg.a IN
        /\ Len(LoadLines) = LeadingRun(a)
        /\ \A i \in 1..Len(LoadLines) :
              LoadLines[i].level = "info" /\ LoadLines[i].v = a[i].v

\* a high sample after a low one is not logged
C8_Witness ==
    /\ Parsed /\ cpu_usage.v > 20
    /\ GotArray
    /\ response.loadavg.a = <<JInt(65001), JInt(65000), JInt(65001)>>
    /\ Len(LoadLines) = 1

(***************************************************************************)
(* C9.  Every step returning, the run terminates, and at no time has it    *)
(* issued more than four requests or more than one confirmation POST.      *)
(***************************************************************************)
C9_Terminates ==
    /\ <>(pc = "done")
    /\ [](Len(requests) <= 4 /\ Count("reboot_call") <= 1)
    /\ [][pc = "done" => pc' = "done"]_vars

\* a run that ended after its fourth request failed
C9_Witness ==
    /\ pc = "done"
    /\ Len(requests) = 4
    /\ requests[4].result = "error"
    /\ exitCode = Some(ExitErr)

(***************************************************************************)
(* C10.  With a parsed CPU usage above 20 and a loadavg field that is      *)
(* absent or not an array, no reboot request is issued and the run has     *)
(* ended with exit status 0.                                               *)
(***************************************************************************)
C10_NoArrayNoReboot ==
    (Parsed /\ cpu_usage.v > 20 /\ response.loadavg.t # "array") =>
        /\ ~Sent("reboot_page")
        /\ ~Sent("reboot_call")
        /\ LastKind = "status"
        /\ pc = "done"
        /\ exitCode = Some(ExitOk)

\* 45 % with no loadavg field
C10_Witness ==
    /\ pc = "done"
    /\ Parsed /\ cpu_usage.v = 45
    /\ response.loadavg = Absent
    /\ exitCode = Some(ExitOk)

====
